---- MODULE Spec2Model ----
(***************************************************************************)
(* ID photo resizer (src/App.tsx): the App component's state, the file     *)
(* selection handler, the asynchronous processImage pipeline and the       *)
(* size-targeting padding of the JPEG it exports.                          *)
(*                                                                         *)
(* Byte buffers (Blob contents, ArrayBuffer, Uint8Array) are sequences of  *)
(* bytes; the source's 0-based index i is position i + 1 of the sequence.  *)
(* Nullable state (string | null, number | null) is the empty sequence for *)
(* null and a one-element sequence for a value.                            *)
(***************************************************************************)
EXTENDS Integers, Sequences, FiniteSets, TLC

(* ---- program constants, src/App.tsx:11-15 ---- *)
TARGET_WIDTH == 295
TARGET_HEIGHT == 413
MIN_KB == 150
MAX_KB == 250
PREFERRED_KB == 200

(* The modulus of the filler byte, src/App.tsx:102. *)
FillModulus == 255

(* ---- bounds of the model ---- *)

(* Bytes counted per kilobyte.  The source multiplies by 1024               *)
(* (src/App.tsx:88); the model counts fewer bytes per kilobyte so that     *)
(* whole byte buffers can be enumerated.  All sizes below are products of  *)
(* the *_KB constants with KB, so the order of the thresholds is the       *)
(* source's, and buffers are longer than FillModulus, so the filler wraps. *)
KB == 2

(* File reads (FileReader.readAsDataURL) that may be in flight at once. *)
MaxReaders == 1

(* Half-width of the band of baseline lengths around each threshold that   *)
(* the encoder-only specification enumerates.                              *)
Span == 6

Null == <<>>
Some(v) == <<v>>
Val(o) == o[1]

MinBytes == MIN_KB * KB
MaxBytes == MAX_KB * KB

(***************************************************************************)
(* The files a user can pick.  A file is known to the component by four    *)
(* attributes: whether file.type starts with "image/" (line 30), file.size *)
(* (line 39), whether the browser decodes its data URL (img.onload against *)
(* img.onerror, lines 56-59), and the length of the JPEG that              *)
(* canvas.toBlob(..., 'image/jpeg', 1.0) yields for the raster drawn from  *)
(* it (line 83).  The table holds one file per case of the pipeline.       *)
(***************************************************************************)
TestFiles ==
  << [isImage |-> FALSE, size |-> 7,   decodes |-> FALSE, encLen |-> 0],
     [isImage |-> TRUE,  size |-> 9,   decodes |-> FALSE, encLen |-> 0],
     [isImage |-> TRUE,  size |-> 30,  decodes |-> TRUE,  encLen |-> 41 * KB],
     [isImage |-> TRUE,  size |-> 500, decodes |-> TRUE,  encLen |-> PREFERRED_KB * KB],
     [isImage |-> TRUE,  size |-> 900, decodes |-> TRUE,  encLen |-> MAX_KB * KB + 1] >>

Files == 1..Len(TestFiles)

(* The bytes of a JPEG stream of n bytes for raster content r: SOI marker, *)
(* entropy-coded data standing for the pixels, EOI marker.                 *)
JpegBytes(r, n) ==
  [k \in 1..n |->
     IF k = 1 THEN 255
     ELSE IF k = 2 THEN 216
     ELSE IF k = n - 1 THEN 255
     ELSE IF k = n THEN 217
     ELSE (r * 37 + k * 11) % 256]

(* The canvas after fillRect and drawImage: the target geometry and the    *)
(* image stretched onto it.                                                *)
Canvas(img) == [width |-> TARGET_WIDTH, height |-> TARGET_HEIGHT, content |-> img]

(* canvas.toBlob(b => res(b), 'image/jpeg', 1.0) when it yields a blob. *)
ToBlob(canvas) == JpegBytes(canvas.content, TestFiles[canvas.content].encLen)

(* ---- the size-targeting step, src/App.tsx:88-107 ---- *)

(* Variants of the target: it aims at the top of the window; it leaves out *)
(* the bytes-per-kilobyte factor.                                          *)
TargetIsMax == MAX_KB * KB
TargetMissesUnit == PREFERRED_KB

(* Line 88. *)
targetSizeInBytes == PREFERRED_KB * KB

(* Variant of the padding size: one byte short. *)
PaddingSizeShort(currentSize) == targetSizeInBytes - currentSize - 1

(* Line 93. *)
PaddingSize(currentSize) == targetSizeInBytes - currentSize

(* new Uint8Array(n): n zero bytes. *)
NewUint8Array(n) == [k \in 1..n |-> 0]

(* buf.set(src, offset) *)
SetBytes(buf, src, offset) ==
  [k \in 1..Len(buf) |->
     IF k - 1 >= offset /\ k - 1 < offset + Len(src) THEN src[k - offset] ELSE buf[k]]

(* Variant of the filler byte: the quotient in place of the remainder. *)
FillByteQuotient(i) == i \div FillModulus

(* The filler byte written at 0-based index i, line 102. *)
FillByte(i) == i % FillModulus

(* Variant of the loop's start: it fills from the first byte. *)
FillFromZero(arrayBuffer) == 0

(* The first index the filler loop writes, line 101. *)
FillStart(arrayBuffer) == Len(arrayBuffer)

(* for (let i = from; i < buf.byteLength; i++) buf[i] = i % 255: every    *)
(* 0-based index i from `from` to the end of buf is written once, with the *)
(* filler byte of i; the indices below `from` keep their bytes.            *)
FillLoop(buf, from) ==
  [k \in 1..Len(buf) |-> IF k - 1 >= from THEN FillByte(k - 1) ELSE buf[k]]

(* Lines 96-103: the padded buffer built from the baseline's bytes. *)
PaddedBuffer(arrayBuffer, paddingSize) ==
  FillLoop(SetBytes(NewUint8Array(Len(arrayBuffer) + paddingSize), arrayBuffer, 0),
           FillStart(arrayBuffer))

(* Lines 85-107 as a whole: the blob that is published for a baseline. *)
SizeTarget(blob) ==
  IF Len(blob) < targetSizeInBytes
    THEN IF PaddingSize(Len(blob)) > 0
           THEN PaddedBuffer(blob, PaddingSize(Len(blob)))
           ELSE blob
    ELSE blob

(* ---- messages of setError ---- *)
ErrNotImage == "not an image file"
ErrProcess == "processing failed"

VARIABLES
  image,          \* useState: data URL of the loaded file (the file's id), or Null
  fileInfo,       \* useState: {name, size} of the loaded file, or Null
  processing,     \* useState: boolean
  processedImage, \* useState: object URL of the published blob, or Null
  processedSize,  \* useState: number, or Null
  error,          \* useState: message, or Null
  reading,        \* files whose FileReader has not fired onload yet
  pc,             \* where the processImage invocation is suspended
  img,            \* processImage: the image captured by the closure (img.src)
  finalBlob,      \* processImage: local finalBlob (bytes)
  currentSize,    \* processImage: local currentSize
  outcome,        \* how the last processImage invocation ended
  encBlob,        \* encoder-only runs: the baseline encode
  encOut          \* encoder-only runs: the result, or Null

vars == <<image, fileInfo, processing, processedImage, processedSize, error,
          reading, pc, img, finalBlob, currentSize, outcome,
          encBlob, encOut>>

uiState == <<image, fileInfo, processing, processedImage, processedSize, error>>
locals == <<pc, img, finalBlob, currentSize>>
encVars == <<encBlob, encOut>>

UiInit ==
  /\ image = Null
  /\ fileInfo = Null
  /\ processing = FALSE
  /\ processedImage = Null
  /\ processedSize = Null
  /\ error = Null
  /\ reading = {}
  /\ pc = "idle"
  /\ img = 0
  /\ finalBlob = <<>>
  /\ currentSize = 0
  /\ outcome = "none"

Init ==
  /\ UiInit
  /\ encBlob = <<>>
  /\ encOut = Null

(***************************************************************************)
(* handleFileChange, src/App.tsx:27-46.  A file that is not an image sets  *)
(* the error and returns; an image file starts a FileReader whose onload   *)
(* fires later.                                                            *)
(***************************************************************************)
HandleFileChange(file) ==
  \/ /\ ~TestFiles[file].isImage
     /\ error' = Some(ErrNotImage)
     /\ outcome' = "none"
     /\ UNCHANGED <<image, fileInfo, processing, processedImage, processedSize,
                    reading, locals, encVars>>
  \/ /\ TestFiles[file].isImage
     /\ file \notin reading
     /\ Cardinality(reading) < MaxReaders
     /\ reading' = reading \cup {file}
     /\ UNCHANGED <<uiState, locals, outcome, encVars>>

(* reader.onload, src/App.tsx:36-43. *)
ReaderOnload(file) ==
  /\ file \in reading
  /\ reading' = reading \ {file}
  /\ image' = Some(file)
  /\ fileInfo' = Some([name |-> file, size |-> TestFiles[file].size])
  /\ processedImage' = Null
  /\ processedSize' = Null
  /\ error' = Null
  /\ outcome' = "none"
  /\ UNCHANGED <<processing, locals, encVars>>

(* The process button is enabled, src/App.tsx:201. *)
ButtonEnabled == image # Null /\ ~processing

(***************************************************************************)
(* processImage up to its first await, src/App.tsx:48-59: the click, the   *)
(* guard on image, setProcessing(true), setError(null), img.src = image.   *)
(***************************************************************************)
ProcessStart ==
  /\ ButtonEnabled
  /\ image # Null
  /\ processing' = TRUE
  /\ error' = Null
  /\ pc' = "awaitLoad"
  /\ img' = Val(image)
  /\ outcome' = "none"
  /\ UNCHANGED <<image, fileInfo, processedImage, processedSize, reading,
                 finalBlob, currentSize, encVars>>

(* Variant of the failure path: the error is set and the flag is left up. *)
CatchWithoutFinally ==
  /\ error' = Some(ErrProcess)
  /\ pc' = "idle"
  /\ img' = 0
  /\ finalBlob' = <<>>
  /\ currentSize' = 0
  /\ outcome' = "failed"
  /\ UNCHANGED <<image, fileInfo, processing, processedImage, processedSize,
                 reading, encVars>>

(* catch and finally, src/App.tsx:113-118. *)
CatchFinally ==
  /\ error' = Some(ErrProcess)
  /\ processing' = FALSE
  /\ pc' = "idle"
  /\ img' = 0
  /\ finalBlob' = <<>>
  /\ currentSize' = 0
  /\ outcome' = "failed"
  /\ UNCHANGED <<image, fileInfo, processedImage, processedSize, reading,
                 encVars>>

(* The object URL handed to setProcessedImage, src/App.tsx:110: it names   *)
(* the blob's bytes; raster records the image the bytes were made from.    *)
CreateObjectURL(raster, blob) == [raster |-> raster, bytes |-> blob]

(* Lines 109-112 and the finally block, src/App.tsx:117. *)
PublishFinally(blob, size) ==
  /\ processedImage' = Some(CreateObjectURL(img, blob))
  /\ processedSize' = Some(size)
  /\ processing' = FALSE
  /\ pc' = "idle"
  /\ img' = 0
  /\ finalBlob' = <<>>
  /\ currentSize' = 0
  /\ outcome' = "ok"
  /\ UNCHANGED <<image, fileInfo, error, reading, encVars>>

(***************************************************************************)
(* The image settles, src/App.tsx:56-71: onerror rejects the awaited       *)
(* promise; onload resumes, the canvas is made, and getContext either      *)
(* yields no context (line 66 throws) or the raster is drawn and toBlob is *)
(* awaited.                                                                *)
(***************************************************************************)
ImgSettle ==
  /\ pc = "awaitLoad"
  /\ \/ /\ ~TestFiles[img].decodes
        /\ CatchFinally
     \/ /\ TestFiles[img].decodes
        /\ \E ctx \in BOOLEAN :
             IF ~ctx
               THEN CatchFinally
               ELSE /\ pc' = "awaitBlob"
                    /\ UNCHANGED <<uiState, reading, img, finalBlob, currentSize,
                                   outcome, encVars>>

(***************************************************************************)
(* The toBlob callback fires, src/App.tsx:83-90 and 109-112: a null blob   *)
(* throws; a blob at least as long as the target is published as it is; a  *)
(* shorter one awaits its arrayBuffer.                                     *)
(***************************************************************************)
ToBlobSettle ==
  /\ pc = "awaitBlob"
  /\ \E gotBlob \in BOOLEAN :
       IF ~gotBlob
         THEN CatchFinally
         ELSE LET b == ToBlob(Canvas(img)) IN
              IF Len(b) < targetSizeInBytes
                THEN /\ pc' = "awaitBuffer"
                     /\ finalBlob' = b
                     /\ currentSize' = Len(b)
                     /\ UNCHANGED <<uiState, reading, img, outcome, encVars>>
                ELSE PublishFinally(b, Len(b))

(* Lines 104-105 and 109-112: the padded buffer becomes finalBlob, its     *)
(* size becomes currentSize, and both are published.                       *)
PublishPadded(paddedBuffer) == PublishFinally(paddedBuffer, Len(paddedBuffer))

(* finalBlob.arrayBuffer() resolves, src/App.tsx:91-112. *)
ArrayBufferResolved ==
  /\ pc = "awaitBuffer"
  /\ LET arrayBuffer == finalBlob
         paddingSize == PaddingSize(currentSize)
     IN IF paddingSize > 0
          THEN PublishPadded(PaddedBuffer(arrayBuffer, paddingSize))
          ELSE PublishFinally(finalBlob, currentSize)

Next ==
  \/ \E file \in Files : HandleFileChange(file)
  \/ \E file \in Files : ReaderOnload(file)
  \/ ProcessStart
  \/ ImgSettle
  \/ ToBlobSettle
  \/ ArrayBufferResolved

Spec == Init /\ [][Next]_vars

(* The awaited callbacks (image load or error, toBlob, arrayBuffer) fire.  *)
(* Each of them moves pc, so fairness on pc is fairness on the callback.   *)
LiveSpec ==
  /\ Spec
  /\ WF_pc(ImgSettle)
  /\ WF_pc(ToBlobSettle)
  /\ WF_pc(ArrayBufferResolved)

(***************************************************************************)
(* The size-targeting step alone, over baseline encodes of many lengths:   *)
(* one run takes a baseline and yields the blob processImage would publish.*)
(***************************************************************************)
(* The baseline lengths tried: the shortest streams (SOI and EOI alone are *)
(* four bytes) and a band around each of minBytes, the target, maxBytes.   *)
EncLengths ==
  {n \in 4..(MaxBytes + Span) :
     \/ n <= 4 + Span
     \/ n >= MinBytes - Span /\ n <= MinBytes + Span
     \/ n >= targetSizeInBytes - Span /\ n <= targetSizeInBytes + Span
     \/ n >= MaxBytes - Span}

EncRasters == {3, 5}

EncInit ==
  /\ UiInit
  /\ encOut = Null
  /\ encBlob \in {JpegBytes(r, n) : r \in EncRasters, n \in EncLengths}

EncRun ==
  /\ encOut = Null
  /\ encBlob # <<>>
  /\ encOut' = Some(SizeTarget(encBlob))
  /\ UNCHANGED <<uiState, reading, locals, outcome, encBlob>>

EncNext == EncRun

EncSpec == EncInit /\ [][EncNext]_vars


(***************************************************************************)
(*                          Properties                                     *)
(***************************************************************************)

(* The byte sizes the properties speak of: preferredBytes, and the         *)
(* baseline encode length L0 of a raster.                                  *)
PreferredBytes == PREFERRED_KB * KB
L0(raster) == TestFiles[raster].encLen
Baseline(raster) == JpegBytes(raster, L0(raster))

(* The padding region of out after a prefix of n bytes, as 0-based indices. *)
FillerIndices(out, n) == n..(Len(out) - 1)

(* C1. Exact hit: whenever the published artifact was made from a baseline *)
(* encode shorter than preferredBytes, the artifact is exactly             *)
(* preferredBytes long and processedSize records that same value.          *)
C1_ExactHit ==
  processedImage # Null =>
    LET url == Val(processedImage) IN
      L0(url.raster) < PreferredBytes =>
        /\ Len(url.bytes) = PreferredBytes
        /\ processedSize = Some(PreferredBytes)

(* A padded artifact of a short baseline is on display. *)
C1_Witness ==
  /\ processedImage # Null
  /\ L0(Val(processedImage).raster) < PreferredBytes
  /\ Len(Val(processedImage).bytes) > L0(Val(processedImage).raster)
  /\ processedSize = Some(PreferredBytes)

(* C2. Passthrough: whenever the published artifact was made from a        *)
(* baseline encode at least preferredBytes long (the boundary included),   *)
(* its bytes are the baseline's bytes and processedSize is L0.             *)
C2_Passthrough ==
  processedImage # Null =>
    LET url == Val(processedImage) IN
      L0(url.raster) >= PreferredBytes =>
        /\ url.bytes = Baseline(url.raster)
        /\ Len(url.bytes) = L0(url.raster)
        /\ processedSize = Some(L0(url.raster))

(* The boundary case is on display: a baseline of exactly preferredBytes. *)
C2_Witness ==
  /\ processedImage # Null
  /\ L0(Val(processedImage).raster) = PreferredBytes
  /\ processedSize = Some(PreferredBytes)

(* C3. Prefix preservation: the result of the size-targeting step is L0    *)
(* plus the padding length long, and its first L0 bytes are the baseline's.*)
C3_PrefixPreserved ==
  encOut # Null =>
    LET out == Val(encOut)
        n == Len(encBlob)
        paddingLength == IF n < PreferredBytes THEN PreferredBytes - n ELSE 0
    IN /\ Len(out) = n + paddingLength
       /\ \A i \in 0..(n - 1) : out[i + 1] = encBlob[i + 1]

(* A baseline has been padded. *)
C3_Witness ==
  /\ encOut # Null
  /\ Len(Val(encOut)) > Len(encBlob)
  /\ SubSeq(Val(encOut), 1, Len(encBlob)) = encBlob

(* C4. Non-degenerate filler: every byte of the padding region is its      *)
(* absolute index modulo 255, and a padding region of two bytes or more    *)
(* holds at least two distinct byte values.                                *)
C4_FillerNotConstant ==
  encOut # Null =>
    LET out == Val(encOut)
        region == FillerIndices(out, Len(encBlob))
    IN /\ \A i \in region : out[i + 1] = i % 255
       /\ Len(out) - Len(encBlob) >= 2 =>
            \E i, j \in region : out[i + 1] # out[j + 1]

(* A padding region that runs over a multiple of 255 has been written. *)
C4_Witness ==
  /\ encOut # Null
  /\ Len(encBlob) <= 254
  /\ Len(Val(encOut)) >= 257
  /\ Val(encOut)[255] = 254
  /\ Val(encOut)[256] = 0

(* C6. No partial success: an invocation that ended well leaves an         *)
(* artifact, its size and no error; one that failed leaves the error and   *)
(* no artifact on display.                                                 *)
C6_NoPartialSuccess ==
  /\ outcome = "ok" =>
       /\ processedImage # Null
       /\ processedSize = Some(Len(Val(processedImage).bytes))
       /\ error = Null
  /\ outcome = "failed" =>
       /\ error # Null
       /\ processedImage = Null

(* C7. Size window: a baseline no longer than maxBytes yields an artifact  *)
(* within [minBytes, maxBytes], and no artifact is shorter than minBytes.  *)
C7_SizeWindow ==
  encOut # Null =>
    /\ Len(encBlob) <= MaxBytes =>
         Len(Val(encOut)) >= MinBytes /\ Len(Val(encOut)) <= MaxBytes
    /\ Len(Val(encOut)) >= MinBytes

(* A baseline below the window has been lifted into it. *)
C7_Witness ==
  /\ encOut # Null
  /\ Len(encBlob) < MinBytes
  /\ Len(Val(encOut)) >= MinBytes
  /\ Len(Val(encOut)) <= MaxBytes

(* C8. The success line is truthful: whenever a processed result is on     *)
(* display, processedSize is the preferred size.                           *)
C8_SuccessLabelTruthful ==
  processedImage # Null => processedSize = Some(PreferredBytes)

(* C9. No stale result: a processed result on display was made from the    *)
(* image that is loaded now.                                               *)
C9_NoStaleResult ==
  processedImage # Null => image = Some(Val(processedImage).raster)

(* C10. The processing flag is released: once set it is eventually reset,  *)
(* and no invocation starts while it is set.                               *)
C10_FlagReleased ==
  /\ processing ~> ~processing
  /\ [][processing => ~(pc' = "awaitLoad" /\ pc # "awaitLoad")]_vars

(* A failed invocation has ended and the flag is down again. *)
C10_Witness ==
  /\ outcome = "failed"
  /\ ~processing
  /\ pc = "idle"

====
